---- MODULE Spec2Model ----
(***************************************************************************)
(* Model of BalancesCalculator (src/balances_calculator.py): the           *)
(* incremental accrual / payment-waterfall engine of the ledger            *)
(* calculator.                                                             *)
(*                                                                         *)
(* Dates are day numbers (2021-10-01 is day 1).  Money is an integer       *)
(* number of millionths of a currency unit (100.50 is 100500000), so the   *)
(* daily rate 0.00035 is the fraction RateNum / RateDen.  Decimal keeps a  *)
(* product exactly; here the daily interest is cut to the millionth, which *)
(* is exact whenever the balance is a multiple of 0.10.                    *)
(***************************************************************************)
EXTENDS Integers, Sequences, FiniteSets, TLC

VARIABLES
    end_date,                  \* self.end_date
    advances,                  \* self.advances
    current_payments,          \* self.current_payments
    last_calculated_date,      \* self.last_calculated_date
    interest_payable_balance,  \* self.interest_payable_balance
    interest_paid,             \* self.interest_paid
    payments_for_future,       \* self.payments_for_future
    call,                      \* the latest call and how it ended
    result,                    \* <<>> or <<the BalancesResult the latest finish returned>>
    log,                       \* history: the calls that returned normally, in order
    rejected,                  \* history: number of process_event calls that raised
    applied,                   \* history: payment amounts drained from the queue, in order
    accrued,                   \* history: total interest added to the IPB
    pending_credit,            \* history: payments_for_future when each pending payment was queued
    applications               \* history: each payment application, with the engine before and after it

vars == <<end_date, advances, current_payments, last_calculated_date,
          interest_payable_balance, interest_paid, payments_for_future,
          call, result, log, rejected, applied, accrued,
          pending_credit, applications>>

engine == <<advances, current_payments, last_calculated_date,
            interest_payable_balance, interest_paid, payments_for_future>>

----------------------------------------------------------------------------
(* Bounds of the exploration *)

MaxCalls == 4       \* calls made on one engine, process_event and finish together

(* Inputs *)

EndDates == {3}
EventDates == 1..4
Amounts == {-10000, 0, 10000, 100500000}

(* Inputs of the documented scenarios: 2021-10-01 is day 1, 2021-10-30 day 30 *)

ScenarioEndDates == {11, 30}
ScenarioDates == {1, 5, 20, 31}
ScenarioAmounts == {0, 100500000, 120000000}

ADVANCE == "advance"
PAYMENT == "payment"
EventTypes == {ADVANCE, PAYMENT, "refund"}

(* DAILY_ACCRUED_INTEREST_CONSTANT = 0.00035 = RateNum / RateDen *)
RateNum == 35
RateDen == 100000

None == -1

----------------------------------------------------------------------------
(* The engine's fields as one value *)

Self ==
    [end_date |-> end_date,
     advances |-> advances,
     current_payments |-> current_payments,
     last_calculated_date |-> last_calculated_date,
     interest_payable_balance |-> interest_payable_balance,
     interest_paid |-> interest_paid,
     payments_for_future |-> payments_for_future,
     applied |-> applied,
     accrued |-> accrued,
     pending_credit |-> pending_credit,
     applications |-> applications]

(* What a payment application or an advance can change *)
View(s) ==
    [advances |-> s.advances,
     interest_payable_balance |-> s.interest_payable_balance,
     interest_paid |-> s.interest_paid,
     payments_for_future |-> s.payments_for_future]

RECURSIVE SumSeq(_)
SumSeq(s) == IF s = <<>> THEN 0 ELSE Head(s) + SumSeq(Tail(s))

RECURSIVE get_current_advance_balance(_)
get_current_advance_balance(advs) ==
    IF Len(advs) = 0 THEN 0
    ELSE Head(advs).current_balance + get_current_advance_balance(Tail(advs))

RECURSIVE SumOriginal(_)
SumOriginal(advs) ==
    IF Len(advs) = 0 THEN 0
    ELSE Head(advs).original_amount + SumOriginal(Tail(advs))

(* current_advance_balance * DAILY_ACCRUED_INTEREST_CONSTANT, computed in two
   parts so that no intermediate product leaves the 32-bit range *)
daily_accrued_interest(balance) ==
    (balance \div RateDen) * RateNum + ((balance % RateDen) * RateNum) \div RateDen

----------------------------------------------------------------------------
(* _process_advance, were it to assign the new record to self.advances
   instead of appending it *)
process_advance_replaces_ledger(s, event_date, amount) ==
    IF s.payments_for_future = 0
    THEN [s EXCEPT !.advances = <<[event_date |-> event_date,
                                   original_amount |-> amount,
                                   current_balance |-> amount]>>]
    ELSE IF amount <= s.payments_for_future
         THEN [s EXCEPT !.payments_for_future = @ - amount,
                        !.advances = <<[event_date |-> event_date,
                                        original_amount |-> amount,
                                        current_balance |-> 0]>>]
         ELSE [s EXCEPT !.payments_for_future = 0,
                        !.advances = <<[event_date |-> event_date,
                                        original_amount |-> amount,
                                        current_balance |-> amount - s.payments_for_future]>>]

(* _process_advance, were it to leave the credit it uses in
   payments_for_future *)
process_advance_keeps_credit(s, event_date, amount) ==
    IF s.payments_for_future = 0
    THEN [s EXCEPT !.advances = Append(@, [event_date |-> event_date,
                                           original_amount |-> amount,
                                           current_balance |-> amount])]
    ELSE IF amount <= s.payments_for_future
         THEN [s EXCEPT !.advances = Append(@, [event_date |-> event_date,
                                                original_amount |-> amount,
                                                current_balance |-> 0])]
         ELSE [s EXCEPT !.advances = Append(@, [event_date |-> event_date,
                                                original_amount |-> amount,
                                                current_balance |-> amount - s.payments_for_future])]

(* _process_advance *)

(* the same, were an advance disbursed in full whatever the credit *)
process_advance_ignores_credit(s, event_date, amount) ==
    [s EXCEPT !.advances = Append(@, [event_date |-> event_date,
                                      original_amount |-> amount,
                                      current_balance |-> amount])]

process_advance(s, event_date, amount) ==
    IF s.payments_for_future = 0
    THEN [s EXCEPT !.advances = Append(@, [event_date |-> event_date,
                                           original_amount |-> amount,
                                           current_balance |-> amount])]
    ELSE IF amount <= s.payments_for_future
         THEN [s EXCEPT !.payments_for_future = @ - amount,
                        !.advances = Append(@, [event_date |-> event_date,
                                                original_amount |-> amount,
                                                current_balance |-> 0])]
         ELSE [s EXCEPT !.payments_for_future = 0,
                        !.advances = Append(@, [event_date |-> event_date,
                                                original_amount |-> amount,
                                                current_balance |-> amount - s.payments_for_future])]

(* _process_payment *)

process_payment(s, amount) ==
    [s EXCEPT !.current_payments = Append(@, amount),
              !.pending_credit = Append(@, s.payments_for_future)]

----------------------------------------------------------------------------
(* _apply_interest_payable_balance_payment: the engine after the payment and
   the amount that remains *)

(* the same, were the partial branch to add the amount paid to interest_paid *)
apply_interest_payable_balance_payment_adds_amount(s, amount) ==
    IF s.interest_payable_balance > 0
    THEN IF amount >= s.interest_payable_balance
         THEN [self |-> [s EXCEPT !.interest_paid = @ + s.interest_payable_balance,
                                  !.interest_payable_balance = 0],
               amount |-> amount - s.interest_payable_balance]
         ELSE [self |-> [s EXCEPT !.interest_payable_balance = @ - amount,
                                  !.interest_paid = @ + amount],
               amount |-> 0]
    ELSE [self |-> s, amount |-> amount]

(* the same, were the branch that pays the whole balance to return the amount
   without taking the interest out of it *)
apply_interest_payable_balance_payment_keeps_amount(s, amount) ==
    IF s.interest_payable_balance > 0
    THEN IF amount >= s.interest_payable_balance
         THEN [self |-> [s EXCEPT !.interest_paid = @ + s.interest_payable_balance,
                                  !.interest_payable_balance = 0],
               amount |-> amount]
         ELSE [self |-> [s EXCEPT !.interest_payable_balance = @ - amount,
                                  !.interest_paid = @ + (s.interest_payable_balance - amount)],
               amount |-> 0]
    ELSE [self |-> s, amount |-> amount]

apply_interest_payable_balance_payment(s, amount) ==
    IF s.interest_payable_balance > 0
    THEN IF amount >= s.interest_payable_balance
         THEN [self |-> [s EXCEPT !.interest_paid = @ + s.interest_payable_balance,
                                  !.interest_payable_balance = 0],
               amount |-> amount - s.interest_payable_balance]
         ELSE [self |-> [s EXCEPT !.interest_payable_balance = @ - amount,
                                  !.interest_paid = @ + (s.interest_payable_balance - amount)],
               amount |-> 0]
    ELSE [self |-> s, amount |-> amount]

(* _apply_advances_payment: the sweep over self.advances from position i on *)

(* the sweep, were it to subtract the amount from the first open advance
   without comparing the two *)
RECURSIVE advances_sweep_no_compare(_, _, _)
advances_sweep_no_compare(advs, i, amount) ==
    IF i > Len(advs)
    THEN [advances |-> advs, amount |-> amount]
    ELSE IF advs[i].current_balance > 0
         THEN [advances |-> [advs EXCEPT ![i].current_balance = @ - amount],
               amount |-> 0]
         ELSE advances_sweep_no_compare(advs, i + 1, amount)

(* the sweep, were it to stop after the first open advance even when the
   amount covers it *)
RECURSIVE advances_sweep_stops_after_first(_, _, _)
advances_sweep_stops_after_first(advs, i, amount) ==
    IF i > Len(advs)
    THEN [advances |-> advs, amount |-> amount]
    ELSE IF advs[i].current_balance > 0
         THEN IF amount > advs[i].current_balance
              THEN [advances |-> [advs EXCEPT ![i].current_balance = 0],
                    amount |-> amount - advs[i].current_balance]
              ELSE [advances |-> [advs EXCEPT ![i].current_balance = @ - amount],
                    amount |-> 0]
         ELSE advances_sweep_stops_after_first(advs, i + 1, amount)

RECURSIVE advances_sweep(_, _, _)
advances_sweep(advs, i, amount) ==
    IF i > Len(advs)
    THEN [advances |-> advs, amount |-> amount]
    ELSE IF advs[i].current_balance > 0
         THEN IF amount > advs[i].current_balance
              THEN advances_sweep([advs EXCEPT ![i].current_balance = 0], i + 1,
                                  amount - advs[i].current_balance)
              ELSE [advances |-> [advs EXCEPT ![i].current_balance = @ - amount],
                    amount |-> 0]
         ELSE advances_sweep(advs, i + 1, amount)

(* _apply_advances_payment, were it to sweep the ledger from the newest
   record to the oldest *)
RECURSIVE advances_sweep_down(_, _, _)
advances_sweep_down(advs, i, amount) ==
    IF i < 1
    THEN [advances |-> advs, amount |-> amount]
    ELSE IF advs[i].current_balance > 0
         THEN IF amount > advs[i].current_balance
              THEN advances_sweep_down([advs EXCEPT ![i].current_balance = 0], i - 1,
                                       amount - advs[i].current_balance)
              ELSE [advances |-> [advs EXCEPT ![i].current_balance = @ - amount],
                    amount |-> 0]
         ELSE advances_sweep_down(advs, i - 1, amount)

apply_advances_payment_newest_first(advs, amount) ==
    advances_sweep_down(advs, Len(advs), amount)

apply_advances_payment(advs, amount) == advances_sweep(advs, 1, amount)

(* One iteration of the loop of _apply_current_payments *)

(* the same, were the payment to go to the advances first and to the
   interest with what remains *)
apply_payment_principal_first(s, amount) ==
    IF s.payments_for_future > 0
    THEN [s EXCEPT !.payments_for_future = @ + amount]
    ELSE LET adv == apply_advances_payment(s.advances, amount)
             s2 == [s EXCEPT !.advances = adv.advances]
             ipb == IF adv.amount > 0
                    THEN apply_interest_payable_balance_payment(s2, adv.amount)
                    ELSE [self |-> s2, amount |-> adv.amount]
         IN  IF ipb.amount > 0
             THEN [ipb.self EXCEPT !.payments_for_future = ipb.amount]
             ELSE ipb.self

(* the same, were a payment made while credit exists to replace the credit
   instead of adding to it *)
apply_payment_overwrites_credit(s, amount) ==
    IF s.payments_for_future > 0
    THEN [s EXCEPT !.payments_for_future = amount]
    ELSE LET ipb == apply_interest_payable_balance_payment(s, amount)
             adv == IF ipb.amount > 0
                    THEN apply_advances_payment(ipb.self.advances, ipb.amount)
                    ELSE [advances |-> ipb.self.advances, amount |-> ipb.amount]
             s2 == [ipb.self EXCEPT !.advances = adv.advances]
         IN  IF adv.amount > 0
             THEN [s2 EXCEPT !.payments_for_future = adv.amount]
             ELSE s2

apply_payment(s, amount) ==
    IF s.payments_for_future > 0
    THEN [s EXCEPT !.payments_for_future = @ + amount]
    ELSE LET ipb == apply_interest_payable_balance_payment(s, amount)
             adv == IF ipb.amount > 0
                    THEN apply_advances_payment(ipb.self.advances, ipb.amount)
                    ELSE [advances |-> ipb.self.advances, amount |-> ipb.amount]
             s2 == [ipb.self EXCEPT !.advances = adv.advances]
         IN  IF adv.amount > 0
             THEN [s2 EXCEPT !.payments_for_future = adv.amount]
             ELSE s2

RECURSIVE apply_payments(_, _)
apply_payments(s, payments) ==
    IF payments = <<>> THEN s
    ELSE LET amount == Head(payments)
             t == apply_payment(s, amount)
         IN  apply_payments([t EXCEPT !.applied = Append(@, amount),
                                      !.pending_credit = Tail(@),
                                      !.applications =
                                          Append(@, [amount |-> amount,
                                                     credit_at_accept |-> Head(s.pending_credit),
                                                     before |-> View(s),
                                                     after |-> View(t)])],
                            Tail(payments))

(* _apply_current_payments *)

apply_current_payments(s) ==
    [apply_payments(s, s.current_payments) EXCEPT !.current_payments = <<>>]

----------------------------------------------------------------------------
(* _calculate_daily_interests_until *)

(* the loop, were it to stop one day short of stop_date *)
RECURSIVE accrue_days_one_short(_, _)
accrue_days_one_short(s, stop_date) ==
    IF s.last_calculated_date + 1 < stop_date
    THEN LET interest == daily_accrued_interest(get_current_advance_balance(s.advances))
         IN  accrue_days_one_short([s EXCEPT !.interest_payable_balance = @ + interest,
                                             !.accrued = @ + interest,
                                             !.last_calculated_date = @ + 1],
                                   stop_date)
    ELSE s

(* the loop, were it to charge interest on the unpaid interest too *)
RECURSIVE accrue_days_compounding(_, _)
accrue_days_compounding(s, stop_date) ==
    IF s.last_calculated_date < stop_date
    THEN LET interest == daily_accrued_interest(get_current_advance_balance(s.advances)
                                                  + s.interest_payable_balance)
         IN  accrue_days_compounding([s EXCEPT !.interest_payable_balance = @ + interest,
                                               !.accrued = @ + interest,
                                               !.last_calculated_date = @ + 1],
                                     stop_date)
    ELSE s

RECURSIVE accrue_days(_, _)
accrue_days(s, stop_date) ==
    IF s.last_calculated_date < stop_date
    THEN LET interest == daily_accrued_interest(get_current_advance_balance(s.advances))
         IN  accrue_days([s EXCEPT !.interest_payable_balance = @ + interest,
                                   !.accrued = @ + interest,
                                   !.last_calculated_date = @ + 1],
                         stop_date)
    ELSE s

calculate_daily_interests_until(s, stop_date) ==
    LET s1 == apply_current_payments(s)
    IN  IF s1.last_calculated_date # None
        THEN accrue_days(s1, stop_date)
        ELSE s1

----------------------------------------------------------------------------
(* process_event: the engine after the call and how the call ended *)

process_event_call(s, event_date, event_type, amount) ==
    LET event_previous_date == event_date - 1
        s0 == IF s.last_calculated_date = None
              THEN [s EXCEPT !.last_calculated_date = event_previous_date]
              ELSE s
    IN  IF ~(event_date <= s0.end_date) THEN [self |-> s0, outcome |-> "AssertionError"]
        ELSE IF ~(event_date >= s0.last_calculated_date) THEN [self |-> s0, outcome |-> "AssertionError"]
        ELSE IF ~(amount > 0) THEN [self |-> s0, outcome |-> "AssertionError"]
        ELSE LET s1 == IF event_date > s0.last_calculated_date
                       THEN calculate_daily_interests_until(s0, event_previous_date)
                       ELSE s0
             IN  IF event_type = ADVANCE
                 THEN [self |-> process_advance(s1, event_date, amount), outcome |-> "ok"]
                 ELSE IF event_type = PAYMENT
                 THEN [self |-> process_payment(s1, amount), outcome |-> "ok"]
                 ELSE [self |-> s1, outcome |-> "ValueError"]

(* finish_calculation_and_get_results: the engine after the call and the
   BalancesResult it returns *)

BalancesResult(s) ==
    [advances |-> s.advances,
     overall_advance_balance |-> get_current_advance_balance(s.advances),
     overall_interest_payable_balance |-> s.interest_payable_balance,
     overall_interest_paid |-> s.interest_paid,
     overall_payments_for_future |-> s.payments_for_future]

(* finish, were it to assemble the snapshot before closing the remaining days *)
finish_call_snapshot_first(s) ==
    LET s1 == IF s.last_calculated_date # s.end_date
              THEN calculate_daily_interests_until(s, s.end_date)
              ELSE s
    IN  [self |-> s1, result |-> BalancesResult(s)]

finish_call(s) ==
    LET s1 == IF s.last_calculated_date # s.end_date
              THEN calculate_daily_interests_until(s, s.end_date)
              ELSE s
    IN  [self |-> s1, result |-> BalancesResult(s1)]

----------------------------------------------------------------------------
(* The state machine *)

NumCalls(op) == Cardinality({i \in 1..Len(log) : log[i].op = op})

Store(s) ==
    /\ advances' = s.advances
    /\ current_payments' = s.current_payments
    /\ last_calculated_date' = s.last_calculated_date
    /\ interest_payable_balance' = s.interest_payable_balance
    /\ interest_paid' = s.interest_paid
    /\ payments_for_future' = s.payments_for_future
    /\ applied' = s.applied
    /\ accrued' = s.accrued
    /\ pending_credit' = s.pending_credit
    /\ applications' = s.applications
    /\ UNCHANGED end_date

InitEngine(end_dates) ==
    /\ end_date \in end_dates
    /\ advances = <<>>
    /\ current_payments = <<>>
    /\ last_calculated_date = None
    /\ interest_payable_balance = 0
    /\ interest_paid = 0
    /\ payments_for_future = 0
    /\ call = [op |-> "init", outcome |-> "ok"]
    /\ result = <<>>
    /\ log = <<>>
    /\ rejected = 0
    /\ applied = <<>>
    /\ accrued = 0
    /\ pending_credit = <<>>
    /\ applications = <<>>

process_event(event_date, event_type, amount) ==
    LET r == process_event_call(Self, event_date, event_type, amount)
        c == [op |-> "process_event", outcome |-> r.outcome]
        e == [op |-> "process_event", event_date |-> event_date,
              event_type |-> event_type, amount |-> amount]
    IN  /\ Len(log) + rejected < MaxCalls
        /\ Store(r.self)
        /\ call' = c
        /\ log' = IF r.outcome = "ok" THEN Append(log, e) ELSE log
        /\ rejected' = IF r.outcome = "ok" THEN rejected ELSE rejected + 1
        /\ UNCHANGED result

finish_calculation_and_get_results ==
    LET r == finish_call(Self)
        c == [op |-> "finish", outcome |-> "ok"]
        e == [op |-> "finish", event_date |-> 0, event_type |-> "", amount |-> 0]
    IN  /\ Len(log) + rejected < MaxCalls
        /\ Store(r.self)
        /\ call' = c
        /\ result' = <<r.result>>
        /\ log' = Append(log, e)
        /\ UNCHANGED rejected

Init == InitEngine(EndDates)

Next ==
    \/ \E d \in EventDates, t \in EventTypes, a \in Amounts : process_event(d, t, a)
    \/ finish_calculation_and_get_results

Spec == Init /\ [][Next]_vars

(* The same engine driven by the inputs of the documented scenarios *)

InitScenario == InitEngine(ScenarioEndDates)

NextScenario ==
    \/ \E d \in ScenarioDates, t \in EventTypes, a \in ScenarioAmounts : process_event(d, t, a)
    \/ finish_calculation_and_get_results

SpecScenario == InitScenario /\ [][NextScenario]_vars

----------------------------------------------------------------------------
(* Vocabulary of the properties *)

AllDates == EventDates \cup ScenarioDates
AllAmounts == Amounts \cup ScenarioAmounts

Event(d, t, a) == [op |-> "process_event", event_date |-> d, event_type |-> t, amount |-> a]
Finish == [op |-> "finish", event_date |-> 0, event_type |-> "", amount |-> 0]

Record(d, orig, bal) == [event_date |-> d, original_amount |-> orig, current_balance |-> bal]

Snapshot(advs, ipb, paid, future) ==
    [advances |-> advs,
     overall_advance_balance |-> get_current_advance_balance(advs),
     overall_interest_payable_balance |-> ipb,
     overall_interest_paid |-> paid,
     overall_payments_for_future |-> future]

----------------------------------------------------------------------------
(* C1, as stated: Scenario A.  On a fresh engine with end_date = D + 10, the
   single event process_event(D, advance, 100.50) followed by finish returns
   advance balance 100.50, interest payable balance 0.35175 (10 days of
   interest), interest paid 0 and future credit 0. *)
C1_ScenarioA_TenDays ==
    \A D \in ScenarioDates :
        (rejected = 0 /\ end_date = D + 10
           /\ log = <<Event(D, ADVANCE, 100500000), Finish>>)
        => result = <<Snapshot(<<Record(D, 100500000, 100500000)>>, 351750, 0, 0)>>

(* C1, amended: the same run returns interest payable balance 0.386925, the
   interest of the 11 days D .. D+10, both ends included; the other three
   figures are as stated. *)
C1_ScenarioA_ElevenDays ==
    \A D \in ScenarioDates :
        (rejected = 0 /\ end_date = D + 10
           /\ log = <<Event(D, ADVANCE, 100500000), Finish>>)
        => /\ result = <<Snapshot(<<Record(D, 100500000, 100500000)>>, 386925, 0, 0)>>
           /\ interest_payable_balance = 11 * daily_accrued_interest(100500000)
           /\ last_calculated_date = end_date

C1_Witness ==
    \E D \in ScenarioDates :
        /\ rejected = 0 /\ end_date = D + 10
        /\ log = <<Event(D, ADVANCE, 100500000), Finish>>
        /\ result # <<>>

----------------------------------------------------------------------------
(* C2: a process_event call whose date is after end_date, whose date is
   before last_calculated_date, or whose amount is <= 0 fails and leaves the
   whole engine state as it was, from every reachable state, the fresh engine
   included. *)
C2_InvalidCallLeavesStateUnchanged ==
    [][\A d \in AllDates, t \in EventTypes, a \in AllAmounts :
          (/\ process_event(d, t, a)
           /\ \/ d > end_date
              \/ (last_calculated_date # None /\ d < last_calculated_date)
              \/ a <= 0)
          => (call'.outcome # "ok" /\ UNCHANGED engine)]_vars

(* C3: a process_event call with an unknown event kind, and a valid date and
   amount, fails and leaves the whole engine state as it was. *)
C3_UnknownKindLeavesStateUnchanged ==
    [][\A d \in AllDates, t \in EventTypes \ {ADVANCE, PAYMENT}, a \in AllAmounts :
          (/\ process_event(d, t, a)
           /\ d <= end_date
           /\ (last_calculated_date = None \/ d >= last_calculated_date)
           /\ a > 0)
          => (call'.outcome # "ok" /\ UNCHANGED engine)]_vars

(* C4: the dates of the accepted events are non-decreasing in acceptance
   order, and the advance records are in non-decreasing event_date order. *)
AcceptedEvents == SelectSeq(log, LAMBDA e : e.op = "process_event")

C4_AcceptedDatesNonDecreasing ==
    /\ \A i, j \in 1..Len(AcceptedEvents) :
          i < j => AcceptedEvents[i].event_date <= AcceptedEvents[j].event_date
    /\ \A i, j \in 1..Len(advances) :
          i < j => advances[i].event_date <= advances[j].event_date

(* C5: once finish has returned, every later process_event call is rejected
   and the engine state never changes again. *)
C5_NothingAfterFinish ==
    [][NumCalls("finish") >= 1
         => /\ (call'.op = "process_event" => call'.outcome # "ok")
            /\ UNCHANGED engine]_vars

(* C6: a second finish call fails instead of returning a snapshot, so at most
   one finish call ever returns normally. *)
C6_SecondFinishFails == NumCalls("finish") <= 1

(* C7: idempotent finalize.  A finish call that directly follows a finish call
   returns the snapshot the first one returned and changes no engine state. *)
C7_IdempotentFinish ==
    [][(call.op = "finish" /\ call'.op = "finish")
         => (call'.outcome = "ok" /\ result' = result /\ UNCHANGED engine)]_vars

C7_Witness ==
    /\ call.op = "finish" /\ NumCalls("finish") = 2
    /\ log[Len(log) - 1].op = "finish"
    /\ advances # <<>> /\ interest_payable_balance > 0 /\ applied # <<>>

(* C8: non-negativity.  interest_payable_balance, payments_for_future and the
   current_balance of every advance record are >= 0 in every reachable state. *)
C8_NonNegativity ==
    /\ interest_payable_balance >= 0
    /\ payments_for_future >= 0
    /\ \A i \in 1..Len(advances) : advances[i].current_balance >= 0

C8_Witness ==
    /\ applied # <<>>
    /\ interest_payable_balance > 0
    /\ \E i \in 1..Len(advances) :
          /\ advances[i].current_balance > 0
          /\ advances[i].current_balance < advances[i].original_amount

(* C9: monotonicity.  Every step keeps each advance record in the ledger with
   its date and original_amount, never raises its current_balance (which
   therefore never exceeds original_amount), and never lowers interest_paid. *)
C9_Monotonicity ==
    [][/\ Len(advances') >= Len(advances)
       /\ \A i \in 1..Len(advances) :
             /\ advances'[i].event_date = advances[i].event_date
             /\ advances'[i].original_amount = advances[i].original_amount
             /\ advances'[i].current_balance <= advances[i].current_balance
       /\ \A i \in 1..Len(advances') :
             advances'[i].current_balance <= advances'[i].original_amount
       /\ interest_paid' >= interest_paid]_vars

C9_Witness ==
    /\ interest_paid > 0
    /\ \E i \in 1..Len(advances) :
          advances[i].current_balance < advances[i].original_amount

(* C10: conservation.  The principal retired, sum(original_amount) minus
   sum(current_balance), is >= 0 and never exceeds the sum of the payment
   amounts drained from the pending queue so far. *)
PrincipalRetired == SumOriginal(advances) - get_current_advance_balance(advances)

C10_Conservation ==
    /\ PrincipalRetired >= 0
    /\ PrincipalRetired <= SumSeq(applied)

C10_Witness ==
    /\ PrincipalRetired > 0
    /\ PrincipalRetired < SumSeq(applied)
    /\ \E i \in 1..Len(advances) :
          advances[i].current_balance < advances[i].original_amount

----------------------------------------------------------------------------
(* C11: oldest-first retirement.  For any two ledger positions i < j, if
   advance j has current_balance < original_amount then advance i has
   current_balance = 0: nothing reduces a later advance while an earlier one
   still has a positive balance. *)
C11_OldestFirst ==
    \A i, j \in 1..Len(advances) :
        (i < j /\ advances[j].current_balance < advances[j].original_amount)
        => advances[i].current_balance = 0

C11_Witness ==
    /\ applied # <<>>
    /\ \E i, j \in 1..Len(advances) :
          /\ i < j
          /\ advances[i].original_amount > 0 /\ advances[i].current_balance = 0
          /\ advances[j].current_balance > 0
          /\ advances[j].current_balance < advances[j].original_amount

(* C12: Scenario D.  A payment that was accepted while payments_for_future > 0
   is, when applied, added whole to payments_for_future, and its application
   changes neither interest_payable_balance, nor interest_paid, nor any
   current_balance. *)
C12_CreditPaymentGoesToCredit ==
    \A k \in 1..Len(applications) :
        applications[k].credit_at_accept > 0
        => /\ applications[k].after.payments_for_future
                = applications[k].before.payments_for_future + applications[k].amount
           /\ applications[k].after.interest_payable_balance
                = applications[k].before.interest_payable_balance
           /\ applications[k].after.interest_paid = applications[k].before.interest_paid
           /\ applications[k].after.advances = applications[k].before.advances

----------------------------------------------------------------------------
(* C13: Scenario B.  On a fresh engine with end_date 2021-10-30, advance
   100.50 on 2021-10-01 and payment 120 on 2021-10-05 give interest payable
   balance 0.1407 (4 accrued days) until the payment is applied, and finish
   returns advance balance 0, interest payable balance 0, interest paid
   0.1407 and future credit 19.3593. *)
ScenarioB_Events == <<Event(1, ADVANCE, 100500000), Event(5, PAYMENT, 120000000)>>

C13_ScenarioB ==
    (rejected = 0 /\ end_date = 30)
    => /\ log = ScenarioB_Events
          => /\ interest_payable_balance = 140700
             /\ interest_payable_balance = 4 * daily_accrued_interest(100500000)
             /\ current_payments = <<120000000>>
       /\ log = Append(ScenarioB_Events, Finish)
          => /\ Len(applications) = 1
             /\ applications[1].before.interest_payable_balance = 140700
             /\ result = <<Snapshot(<<Record(1, 100500000, 0)>>, 0, 140700, 19359300)>>
             /\ last_calculated_date = 30

C13_Witness ==
    /\ rejected = 0 /\ end_date = 30
    /\ log = Append(ScenarioB_Events, Finish)
    /\ result # <<>>

(* C14: every payment accepted before finish is applied exactly once, in
   arrival order, and when finish returns the pending queue is empty, so
   that the snapshot reflects every accepted payment. *)
AcceptedPayments ==
    LET payments == SelectSeq(log, LAMBDA e : e.op = "process_event" /\ e.event_type = PAYMENT)
    IN  [i \in 1..Len(payments) |-> payments[i].amount]

C14_EveryPaymentApplied ==
    /\ applied \o current_payments = AcceptedPayments
    /\ (call.op = "finish" /\ NumCalls("finish") = 1)
       => (current_payments = <<>> /\ applied = AcceptedPayments)

----------------------------------------------------------------------------
(* C15: future credit only exists when nothing is owed.  In every reachable
   state payments_for_future > 0 implies that every advance record has
   current_balance = 0 and that interest_payable_balance = 0. *)
C15_CreditMeansNothingOwed ==
    payments_for_future > 0
    => /\ \A i \in 1..Len(advances) : advances[i].current_balance = 0
       /\ interest_payable_balance = 0

C15_Witness ==
    /\ payments_for_future > 0
    /\ Len(advances) >= 1
    /\ interest_paid > 0

(* C16: interest before principal.  For every application of one payment
   while payments_for_future = 0: an amount smaller than
   interest_payable_balance changes no advance balance and no future credit,
   and whenever the payment reduces an advance balance or creates future
   credit, interest_payable_balance is 0 right after it. *)
C16_InterestBeforePrincipal ==
    \A k \in 1..Len(applications) :
        LET p == applications[k]
        IN  p.before.payments_for_future = 0
            => /\ p.amount < p.before.interest_payable_balance
                  => /\ p.after.advances = p.before.advances
                     /\ p.after.payments_for_future = p.before.payments_for_future
               /\ (p.after.advances # p.before.advances
                     \/ p.after.payments_for_future > p.before.payments_for_future)
                  => p.after.interest_payable_balance = 0

C16_Witness ==
    /\ \E k \in 1..Len(applications) :
          /\ applications[k].before.payments_for_future = 0
          /\ applications[k].amount < applications[k].before.interest_payable_balance
    /\ \E k \in 1..Len(applications) :
          /\ applications[k].before.payments_for_future = 0
          /\ applications[k].before.interest_payable_balance > 0
          /\ applications[k].after.advances # applications[k].before.advances

----------------------------------------------------------------------------
(* The step is an accepted process_event call; its arguments are the last
   entry of log'. *)
AcceptedStep ==
    /\ call'.op = "process_event"
    /\ call'.outcome = "ok"
    /\ Len(log') = Len(log) + 1

Max0(x) == IF x > 0 THEN x ELSE 0

(* The engine right after the pending payments of the current step were
   applied: the view after the last application of the step, or the view
   before the step when it applied none. *)
AfterDrain ==
    IF applications' # applications
    THEN applications'[Len(applications')].after
    ELSE View(Self)

(* What _calculate_daily_interests_until(stop) does from last_calculated_date
   L: the whole queue is applied, then the IPB grows by (stop - L) times the
   daily interest of the balance left by the payments, and nothing else of
   the ledger or the aggregates moves. *)
LinearAccrual(L, stop) ==
    LET B == get_current_advance_balance(AfterDrain.advances)
        days == IF L < stop THEN stop - L ELSE 0
    IN  /\ applied' = applied \o current_payments
        /\ interest_payable_balance'
             = AfterDrain.interest_payable_balance + days * daily_accrued_interest(B)
        /\ last_calculated_date' = (IF L < stop THEN stop ELSE L)
        /\ interest_paid' = AfterDrain.interest_paid
        /\ SubSeq(advances', 1, Len(advances)) = AfterDrain.advances
        /\ Len(advances') = Len(advances)
             => payments_for_future' = AfterDrain.payments_for_future

(* C17: linear accrual after payments.  Every call of
   _calculate_daily_interests_until(stop) with last_calculated_date = L, made
   by process_event (stop = event_date - 1) or by finish (stop = end_date),
   first applies all pending payments, then adds exactly (stop - L) x B x
   daily rate to interest_payable_balance, B being the aggregate balance after
   those payments, and sets last_calculated_date = stop, the loop changing no
   advance balance, interest_paid or payments_for_future; with L >= stop it
   accrues nothing and leaves last_calculated_date unchanged. *)
C17_LinearAccrual ==
    [][/\ AcceptedStep
          => LET d == log'[Len(log')].event_date
                 L == IF last_calculated_date = None THEN d - 1 ELSE last_calculated_date
             IN  d > L => LinearAccrual(L, d - 1)
       /\ (call'.op = "process_event" /\ call'.outcome = "ValueError")
          => \A d \in AllDates, t \in EventTypes \ {ADVANCE, PAYMENT}, a \in AllAmounts :
                LET L == IF last_calculated_date = None THEN d - 1 ELSE last_calculated_date
                IN  (d <= end_date /\ d > L /\ a > 0 /\ process_event(d, t, a))
                    => LinearAccrual(L, d - 1)
       /\ (finish_calculation_and_get_results
             /\ last_calculated_date # None /\ last_calculated_date # end_date)
          => LinearAccrual(last_calculated_date, end_date)]_vars

C17_Witness ==
    /\ call.op = "finish"
    /\ applied # <<>>
    /\ get_current_advance_balance(advances) > 0
    /\ get_current_advance_balance(advances) < SumOriginal(advances)
    /\ last_calculated_date = end_date
    /\ accrued >= 2 * daily_accrued_interest(get_current_advance_balance(advances))

(* C18: money conservation.  The sum of the payment amounts applied so far
   equals (interest accrued so far - interest_payable_balance) + principal
   retired + payments_for_future. *)
C18_MoneyConservation ==
    SumSeq(applied)
      = (accrued - interest_payable_balance) + PrincipalRetired + payments_for_future

C18_Witness ==
    /\ applied # <<>>
    /\ accrued > interest_payable_balance
    /\ PrincipalRetired > 0
    /\ payments_for_future > 0

(* C19: advance disbursement with credit.  An accepted advance of amount a,
   processed with payments_for_future = c, appends exactly one record at the
   end of the ledger with original_amount = a and current_balance =
   max(a - c, 0), sets payments_for_future to max(c - a, 0), is in the ledger
   as soon as the call returns, and changes no other advance record,
   interest_payable_balance or interest_paid (the IPB moves only by what the
   day close of the same call accrued before the advance was processed). *)
C19_AdvanceWithCredit ==
    [][(AcceptedStep /\ log'[Len(log')].event_type = ADVANCE)
       => LET e == log'[Len(log')]
              c == AfterDrain.payments_for_future
          IN  /\ advances' = Append(AfterDrain.advances,
                                    Record(e.event_date, e.amount, Max0(e.amount - c)))
              /\ payments_for_future' = Max0(c - e.amount)
              /\ interest_paid' = AfterDrain.interest_paid
              /\ interest_payable_balance'
                   = AfterDrain.interest_payable_balance + (accrued' - accrued)]_vars

C19_Witness ==
    /\ call = [op |-> "process_event", outcome |-> "ok"]
    /\ log # <<>>
    /\ log[Len(log)].op = "process_event"
    /\ log[Len(log)].event_type = ADVANCE
    /\ advances # <<>>
    /\ advances[Len(advances)].current_balance > 0
    /\ advances[Len(advances)].current_balance < advances[Len(advances)].original_amount
    /\ payments_for_future = 0

(* C20: same-day deferral.  A process_event call whose date equals the date of
   the previously accepted event neither drains the pending queue nor runs
   any accrual step: the payments accepted for that day stay in the queue,
   unapplied. *)
C20_SameDayDeferral ==
    [][(/\ AcceptedStep
        /\ AcceptedEvents # <<>>
        /\ log'[Len(log')].event_date = AcceptedEvents[Len(AcceptedEvents)].event_date)
       => /\ applied' = applied
          /\ accrued' = accrued
          /\ SubSeq(current_payments', 1, Len(current_payments)) = current_payments]_vars

(* C21: partial interest payment.  When a payment of amount p with
   0 < p < interest_payable_balance = I is applied while payments_for_future
   = 0, interest_payable_balance becomes I - p and interest_paid grows by the
   remaining balance I - p, not by p; when p >= I > 0, interest_paid grows by
   I and interest_payable_balance becomes 0. *)
C21_PartialInterestPayment ==
    \A k \in 1..Len(applications) :
        LET p == applications[k]
            I == p.before.interest_payable_balance
        IN  p.before.payments_for_future = 0
            => /\ (0 < p.amount /\ p.amount < I)
                  => /\ p.after.interest_payable_balance = I - p.amount
                     /\ p.after.interest_paid = p.before.interest_paid + (I - p.amount)
               /\ (p.amount >= I /\ I > 0)
                  => /\ p.after.interest_payable_balance = 0
                     /\ p.after.interest_paid = p.before.interest_paid + I

C21_Witness ==
    /\ \E k \in 1..Len(applications) :
          LET p == applications[k]
              I == p.before.interest_payable_balance
          IN  /\ p.before.payments_for_future = 0
              /\ 0 < p.amount /\ p.amount < I
              /\ I - p.amount # p.amount
    /\ \E k \in 1..Len(applications) :
          LET p == applications[k]
              I == p.before.interest_payable_balance
          IN  /\ p.before.payments_for_future = 0
              /\ I > 0 /\ p.amount >= I

====
